---- MODULE Spec2Model ----
(***************************************************************************)
(* Model of PythonCodeExecutorTool (custom_code_agent.py): the normalizer  *)
(* _clean_code, and _run as a state machine that blocks at the operator    *)
(* prompt (input) and at the wait for the child (subprocess.run).          *)
(* Text is modelled as TLA+ strings, character by character.               *)
(***************************************************************************)
EXTENDS Integers, Sequences, FiniteSets, TLC

VARIABLES
    pc,            \* where the call of _run is: "idle" (no call), "prompt" (blocked
                   \* in input), "running" (blocked in subprocess.run), "returned",
                   \* "raised" (an exception left _run)
    code,          \* the parameter code of the call
    cleaned_code,  \* the local cleaned_code
    confirm,       \* the local confirm: what input() returned in this call
    io,            \* what the call has done to the outside, in order: the printed
                   \* code ("display"), the prompt of input(), the created process
    child,         \* the child process of subprocess.run and its captured pipes
    clock,         \* time subprocess.run has waited for the child
    result,        \* the text the call returned
    fault,         \* the exception that left the call
    calls          \* calls of _run the instance has received

vars == <<pc, code, cleaned_code, confirm, io, child, clock, result, fault, calls>>

(*************************** bounds of the model ***************************)
\* how many pieces a raw tool input is concatenated from
MaxPieces == 2
\* how many writes a child makes to its pipes before it exits or is killed
MaxWrites == 1
\* how far one step of the clock advances the wait for the child
TickStep == 20
\* how many calls of _run the one tool instance receives
MaxCalls == 2

(***************************** string helpers ******************************)
Char(s, i) == SubSeq(s, i, i)

\* str.isspace for the characters str.strip() removes
IsSpace(c) == c \in {" ", "\n", "\t", "\r"}

SetMin(S) == CHOOSE m \in S : \A k \in S : m <= k
SetMax(S) == CHOOSE m \in S : \A k \in S : m >= k

\* str.strip()
Strip(s) ==
    LET keep == {i \in 1..Len(s) : ~IsSpace(Char(s, i))}
    IN  IF keep = {} THEN "" ELSE SubSeq(s, SetMin(keep), SetMax(keep))

\* str.startswith / str.endswith
StartsWith(s, p) == Len(s) >= Len(p) /\ SubSeq(s, 1, Len(p)) = p
EndsWith(s, p) == Len(s) >= Len(p) /\ SubSeq(s, Len(s) - Len(p) + 1, Len(s)) = p

\* s[n:] and s[:-n]
DropFirst(s, n) == SubSeq(s, n + 1, Len(s))
DropLast(s, n) == SubSeq(s, 1, Len(s) - n)

\* the Python operator  t in s  on strings
Contains(s, t) ==
    \E i \in 1..(Len(s) - Len(t) + 1) : SubSeq(s, i, i + Len(t) - 1) = t

UpperLetters == "ABCDEFGHIJKLMNOPQRSTUVWXYZ"
LowerLetters == "abcdefghijklmnopqrstuvwxyz"

LowerChar(c) ==
    IF \E i \in 1..26 : Char(UpperLetters, i) = c
    THEN Char(LowerLetters, CHOOSE i \in 1..26 : Char(UpperLetters, i) = c)
    ELSE c

\* str.lower()
RECURSIVE Lower(_)
Lower(s) ==
    IF Len(s) = 0 THEN "" ELSE LowerChar(Char(s, 1)) \o Lower(DropFirst(s, 1))

(******************************* _clean_code *******************************)
\* The fence character (U+0060) cannot be written inside a TLA+ string, so the
\* character "~" stands for it throughout: FencePython is the nine characters
\* fence fence fence p y t h o n, Fence the three fence characters.
FencePython == "~~~python"
Fence == "~~~"

_clean_code(code_input) ==
    LET c0 == Strip(code_input)
        c1 == IF StartsWith(c0, FencePython)
              THEN Strip(DropFirst(c0, Len(FencePython)))
              ELSE IF StartsWith(c0, Fence)
                   THEN Strip(DropFirst(c0, Len(Fence)))
                   ELSE c0
    IN  IF EndsWith(c1, Fence) THEN Strip(DropLast(c1, Len(Fence))) ELSE c1

(********************************** _run ***********************************)
\* timeout=60 of subprocess.run
Timeout == 60

EmptyMessage ==
    "Error: No valid Python code provided after cleaning. The input might have been empty or only markdown."
CanceledMessage == "Code execution CANCELED by user."
NoOutputMessage == "Code executed successfully with no output to stdout or stderr."
TimedOutMessage == "Error: Code execution timed out after 60 seconds."
UnexpectedPrefix == "An unexpected error occurred during Python code execution: "

\* (variant of NoCode: the test is "cleaned_code is None", which no string passes)
NoCode_IsNone(c) == FALSE

\* not cleaned_code
NoCode(c) == c = ""

\* (variant of IsAffirmative: any response that begins with y or Y approves)
IsAffirmative_Prefix(r) == StartsWith(Lower(r), "y")

\* (variant of IsAffirmative: approve unless the response is n or N)
IsAffirmative_DefaultYes(r) == Lower(r) # "n"

\* the test that lets the call go on to subprocess.run: confirm.lower() == 'y'
IsAffirmative(r) == Lower(r) = "y"

\* (variant of SpawnProgram: the raw input is run, not the cleaned code)
SpawnProgram_Raw(raw, cleaned) == raw

\* the program of the argument vector [sys.executable, '-c', cleaned_code]
SpawnProgram(raw, cleaned) == cleaned

\* "\n".join(output_parts)
RECURSIVE JoinLines(_)
JoinLines(parts) ==
    IF Len(parts) = 0 THEN ""
    ELSE IF Len(parts) = 1 THEN parts[1]
         ELSE parts[1] \o "\n" \o JoinLines(Tail(parts))

\* the text returned for a child that exited: stdout, stderr, returncode
Render(out, err, rc) ==
    LET parts == (IF out # "" THEN <<"Standard Output:\n" \o Strip(out)>> ELSE <<>>)
                 \o (IF err # "" THEN <<"Standard Error:\n" \o Strip(err)>> ELSE <<>>)
        joined == JoinLines(parts)
        msg == IF joined = "" /\ rc = 0 THEN NoOutputMessage
               ELSE IF joined = "" /\ rc # 0
                    THEN "Code execution failed with return code " \o ToString(rc)
                         \o " and no specific error message."
                    ELSE IF rc # 0 /\ ~Contains(joined, "Standard Error")
                         THEN joined \o "\nCode execution finished with return code: "
                              \o ToString(rc)
                         ELSE joined
    IN  Strip(msg)

\* (variant of ExceptResult: no clause for TimeoutExpired, "except Exception"
\* takes it)
ExceptResult_NoTimeoutClause(exc) == UnexpectedPrefix \o exc.msg

\* the except clauses of _run: what the call returns for an exception raised
\* inside the try block (only exceptions derived from Exception get here)
ExceptResult(exc) ==
    IF exc.type = "TimeoutExpired" THEN TimedOutMessage
    ELSE UnexpectedPrefix \o exc.msg

(************************* inputs of the environment ***********************)
\* pieces a raw tool input is concatenated from (at most MaxPieces of them)
RawPieces == {"~~~python", "~~~", "\n", " ", "x=1"}

RECURSIVE Words(_)
Words(n) ==
    IF n = 0 THEN {""}
    ELSE LET W == Words(n - 1) IN W \cup {w \o p : w \in W, p \in RawPieces}

\* whole inputs, among them the fenced and the blank ones
RawExamples ==
    {"~~~python\nprint(1)\n~~~", "~~~\nprint(1)\n~~~", "   \n  ", "print('hi')"}

RawInputs == Words(MaxPieces) \cup RawExamples

\* what the operator types at the prompt (input() drops the line end)
Responses == {"", "y", "Y", "n", "N", "yes", "YES", " y", "yy"}

\* what a child writes to its pipes, and how it exits
StdoutPieces == {"hi\n", "\n", "Standard Error\n", "Code execution CANCELED by user.\n"}
StderrPieces == {"Traceback: boom\n"}
ExitCodes == {0, 3}

\* the interpreter cannot be launched: subprocess.run raises OSError
LaunchErrors == {"[Errno 2] No such file or directory"}

\* exceptions input() raises instead of returning a response
PromptFaults == {"EOFError", "KeyboardInterrupt"}

(********************************* state ***********************************)
None == "<None>"
PromptText == "Do you want to execute this cleaned code? [y/N]: "

NoChild ==
    [state |-> "none", program |-> "", stdout |-> "", stderr |-> "",
     returncode |-> 0, writes |-> 0]

Init ==
    /\ pc = "idle"
    /\ code = None
    /\ cleaned_code = None
    /\ confirm = None
    /\ io = <<>>
    /\ child = NoChild
    /\ clock = 0
    /\ result = None
    /\ fault = "none"
    /\ calls = 0

\* _run from its entry to the return for empty code, or to the call of input()
Call(c) ==
    /\ pc = "idle"
    /\ calls < MaxCalls
    /\ calls' = calls + 1
    /\ code' = c
    /\ cleaned_code' = _clean_code(c)
    /\ confirm' = None
    /\ child' = NoChild
    /\ clock' = 0
    /\ fault' = "none"
    /\ IF NoCode(cleaned_code')
       THEN /\ io' = <<[ev |-> "display", text |-> cleaned_code']>>
            /\ result' = EmptyMessage
            /\ pc' = "returned"
       ELSE /\ io' = <<[ev |-> "display", text |-> cleaned_code'],
                       [ev |-> "prompt", text |-> PromptText]>>
            /\ result' = None
            /\ pc' = "prompt"

\* input() returns r: the call returns canceled, or goes on to subprocess.run,
\* which starts the child (launch = "ok") or raises OSError
Confirm(r, launch) ==
    /\ pc = "prompt"
    /\ confirm' = r
    /\ UNCHANGED <<code, cleaned_code, clock, fault, calls>>
    /\ IF ~IsAffirmative(r)
       THEN /\ launch = "ok"
            /\ result' = CanceledMessage
            /\ pc' = "returned"
            /\ UNCHANGED <<io, child>>
       ELSE IF launch = "ok"
            THEN /\ child' = [NoChild EXCEPT !.state = "running",
                                 !.program = SpawnProgram(code, cleaned_code)]
                 /\ io' = Append(io, [ev |-> "spawn", text |-> child'.program])
                 /\ pc' = "running"
                 /\ UNCHANGED result
            ELSE /\ result' = ExceptResult([type |-> "OSError", msg |-> launch])
                 /\ pc' = "returned"
                 /\ UNCHANGED <<io, child>>

\* input() raises: the call of input() is outside the try block
PromptFault(e) ==
    /\ pc = "prompt"
    /\ fault' = e
    /\ pc' = "raised"
    /\ UNCHANGED <<code, cleaned_code, confirm, io, child, clock, result, calls>>

\* the child writes to a captured pipe while subprocess.run waits
ChildWrite(stream, piece) ==
    /\ pc = "running"
    /\ clock < Timeout
    /\ child.writes < MaxWrites
    /\ child' = IF stream = "stdout"
                THEN [child EXCEPT !.stdout = @ \o piece, !.writes = @ + 1]
                ELSE [child EXCEPT !.stderr = @ \o piece, !.writes = @ + 1]
    /\ UNCHANGED <<pc, code, cleaned_code, confirm, io, clock, result, fault, calls>>

\* time passes while subprocess.run waits
Tick ==
    /\ pc = "running"
    /\ clock < Timeout
    /\ clock' = clock + TickStep
    /\ UNCHANGED <<pc, code, cleaned_code, confirm, io, child, result, fault, calls>>

\* the child exits before the deadline: subprocess.run returns and the call
\* renders stdout, stderr and the return code
ChildExit(rc) ==
    /\ pc = "running"
    /\ clock < Timeout
    /\ child' = [child EXCEPT !.state = "exited", !.returncode = rc]
    /\ result' = Render(child.stdout, child.stderr, rc)
    /\ pc' = "returned"
    /\ UNCHANGED <<code, cleaned_code, confirm, io, clock, fault, calls>>

\* the deadline passes with the child running: subprocess.run kills the
\* child, waits for it and raises TimeoutExpired
TimeoutExpired ==
    /\ pc = "running"
    /\ clock >= Timeout
    /\ child' = [child EXCEPT !.state = "killed"]
    /\ result' = ExceptResult([type |-> "TimeoutExpired", msg |-> "timed out"])
    /\ pc' = "returned"
    /\ UNCHANGED <<code, cleaned_code, confirm, io, clock, fault, calls>>

\* an interrupt while subprocess.run waits: it kills the child and re-raises
\* KeyboardInterrupt, which "except Exception" does not catch
Interrupt ==
    /\ pc = "running"
    /\ clock < Timeout
    /\ child' = [child EXCEPT !.state = "killed"]
    /\ fault' = "KeyboardInterrupt"
    /\ pc' = "raised"
    /\ UNCHANGED <<code, cleaned_code, confirm, io, clock, result, calls>>

\* the caller has the text (or an exception derived from Exception, which
\* main() reports) and the tool instance is free for the next call
NextCall ==
    /\ \/ pc = "returned"
       \/ pc = "raised" /\ fault = "EOFError"
    /\ pc' = "idle"
    /\ code' = None
    /\ cleaned_code' = None
    /\ confirm' = None
    /\ io' = <<>>
    /\ child' = NoChild
    /\ clock' = 0
    /\ result' = None
    /\ fault' = "none"
    /\ UNCHANGED calls

Next ==
    \/ \E c \in RawInputs : Call(c)
    \/ \E r \in Responses : \E launch \in {"ok"} \cup LaunchErrors : Confirm(r, launch)
    \/ \E e \in PromptFaults : PromptFault(e)
    \/ \E piece \in StdoutPieces : ChildWrite("stdout", piece)
    \/ \E piece \in StderrPieces : ChildWrite("stderr", piece)
    \/ Tick
    \/ \E rc \in ExitCodes : ChildExit(rc)
    \/ TimeoutExpired
    \/ Interrupt
    \/ NextCall

Spec == Init /\ [][Next]_vars

(***************************** observations *******************************)
\* io holds a spawn: a child process was created in this call
Spawned == \E i \in DOMAIN io : io[i].ev = "spawn"
\* io holds a prompt: the operator was asked in this call
Prompted == \E i \in DOMAIN io : io[i].ev = "prompt"
Events == [i \in DOMAIN io |-> io[i].ev]

\* exactly 'y' or 'Y'
ExactYes == {"y", "Y"}

(******************************** claims **********************************)
\* C1: with non-empty cleaned code, every response other than exactly 'y' or
\* 'Y' ends the call with the canceled sentence, and no child process was
\* created in that call.
C1_DeclineNeverSpawns ==
    (confirm # None /\ confirm \notin ExactYes)
        => /\ pc = "returned"
           /\ result = CanceledMessage
           /\ ~Spawned
           /\ child = NoChild

C1_Witness ==
    /\ pc = "returned"
    /\ confirm = "yes"
    /\ cleaned_code # ""
    /\ result = CanceledMessage

\* C2: a raw input whose cleaned form is empty ends the call with the
\* no-valid-code sentence; the operator is never asked and no child process
\* is created.
C2_EmptyNeverPrompts ==
    (code # None /\ _clean_code(code) = "")
        => /\ pc = "returned"
           /\ result = EmptyMessage
           /\ confirm = None
           /\ ~Prompted
           /\ ~Spawned
           /\ child = NoChild

C2_Witness ==
    /\ code = "~~~python~~~"
    /\ pc = "returned"
    /\ result = EmptyMessage

\* C3: in every call, in any sequence of calls, a child process is created
\* only by the step that answers this call's own prompt, not answered before
\* in this call, with exactly 'y' or 'Y'.
C3_SpawnStep ==
    \/ Len(io') > Len(io) /\ io'[Len(io')].ev = "spawn"
    \/ child.state = "none" /\ child'.state # "none"

C3_GateEveryCall ==
    [][C3_SpawnStep =>
          /\ pc = "prompt"
          /\ Prompted
          /\ ~Spawned
          /\ confirm = None
          /\ confirm' \in ExactYes]_vars

C3_Witness ==
    /\ calls = 2
    /\ pc = "running"
    /\ Spawned
    /\ confirm = "Y"

\* C4: cleaning is idempotent: cleaning the cleaned code changes nothing.
C4_Idempotent ==
    cleaned_code # None => _clean_code(cleaned_code) = cleaned_code

\* C5: the cleaned code has no leading or trailing whitespace, does not begin
\* with an opening fence (with or without the language tag) and does not end
\* with a closing fence.
C5_NoFenceNoSpace ==
    cleaned_code # None
        => /\ Strip(cleaned_code) = cleaned_code
           /\ ~StartsWith(cleaned_code, Fence)
           /\ ~EndsWith(cleaned_code, Fence)

\* C6: no call of _run ends with an exception: every call returns a text.
C6_NothingEscapes == pc # "raised" /\ fault = "none"

\* C7: when the child exited with a nonzero return code and wrote nothing to
\* stderr, the returned text contains the return code and differs from the
\* text returned for the same stdout and return code 0.
C7_ExitCodeShown ==
    (pc = "returned" /\ child.state = "exited" /\ child.returncode # 0
        /\ child.stderr = "")
        => /\ Contains(result, ToString(child.returncode))
           /\ result # Render(child.stdout, "", 0)

\* C8: the returned text contains the cancellation sentence only when the
\* operator declined at the prompt.
C8_CancelOnlyWhenDeclined ==
    (pc = "returned" /\ Contains(result, "Code execution CANCELED by user"))
        => (confirm # None /\ confirm \notin ExactYes)

\* C9: when the deadline passes with the child running, the call returns
\* the timeout sentence alone (nothing the child wrote is in it) and the
\* child has been killed; no call returns with its child running; a child
\* that exited before the deadline never gives the timeout sentence.
C9_Step ==
    /\ (pc = "running" /\ clock >= Timeout)
          => /\ pc' = "returned"
             /\ result' = TimedOutMessage
             /\ child'.state = "killed"
             /\ \A out \in {child.stdout, child.stderr} :
                   Strip(out) # "" => ~Contains(result', Strip(out))
    /\ pc' = "returned" => child'.state # "running"
    /\ (pc' = "returned" /\ child'.state = "exited") => result' # TimedOutMessage
    /\ (pc = "running" /\ clock < Timeout /\ pc' = "returned")
          => /\ child'.state = "exited"
             /\ result' # TimedOutMessage

C10_ApprovedIsRun ==
    (Spawned \/ child.state # "none")
        => /\ Events = <<"display", "prompt", "spawn">>
           /\ io[1].text = _clean_code(code)
           /\ io[3].text = io[1].text
           /\ child.program = io[1].text

C10_Witness ==
    /\ pc = "running"
    /\ code = "~~~python\nprint(1)\n~~~"
    /\ child.program = "print(1)"
    /\ Events = <<"display", "prompt", "spawn">>

====
